---- MODULE Spec2Model ----
(***************************************************************************)
(* Model of setup.py of the "harmonic" package: the script walks           *)
(* ./harmonic/ bottom-up, calls shutil.rmtree(name) for every directory    *)
(* entry called "build", builds two Extension descriptors and calls        *)
(* setup().  The filesystem is a function from cwd-relative paths          *)
(* (sequences of names) to the kind of the entry found there.              *)
(***************************************************************************)
EXTENDS Naturals, Sequences, FiniteSets, TLC

VARIABLES fs, fs0, env, pc, stack, root, dirs, idx,
          deleted, failed, setupCalls, passed, run, prev

vars == <<fs, fs0, env, pc, stack, root, dirs, idx,
          deleted, failed, setupCalls, passed, run, prev>>

\* ------------------------------------------------------------------ bounds
MaxDepth == 2
MaxEntries == 5

\* ------------------------------------------------------- filesystem model
Names == {"build", "lib"}
Kinds == {"dir", "file"}
EnvVars == {"code", "FFTW"}
EnvValues == {"unset", "/opt/"}

HarmonicTop == <<"harmonic">>

SubPaths == UNION {[1..n -> Names] : n \in 1..MaxDepth}

Universe ==
    {HarmonicTop} \cup {HarmonicTop \o s : s \in SubPaths}
        \cup {<<"build">>, <<"build", "lib">>, <<"lib">>}

Parent(p) == SubSeq(p, 1, Len(p) - 1)

IsPrefix(p, q) == Len(p) <= Len(q) /\ SubSeq(q, 1, Len(p)) = p

WellFormed(f) ==
    \A p \in DOMAIN f :
        Len(p) > 1 => Parent(p) \in DOMAIN f /\ f[Parent(p)] = "dir"

InitialTrees ==
    {f \in UNION {[S -> Kinds] :
                    S \in {T \in SUBSET Universe :
                             /\ Cardinality(T) <= MaxEntries
                             /\ \A p \in T : Len(p) > 1 => Parent(p) \in T}} :
        WellFormed(f)}

Envs == [EnvVars -> EnvValues]

IsDir(f, p) == p \in DOMAIN f /\ f[p] = "dir"

\* names of the directory entries of p (os.scandir + entry.is_dir())
SubDirNames(f, p) ==
    {n \in Names : IsDir(f, Append(p, n))}

\* every ordering of a finite set of names (scandir order is arbitrary)
Orderings(S) ==
    {s \in [1..Cardinality(S) -> S] : \A i, j \in 1..Cardinality(S) : s[i] = s[j] => i = j}

\* the tree f with p and everything below it removed
RemoveTree(f, p) ==
    [q \in {r \in DOMAIN f : ~IsPrefix(p, r)} |-> f[q]]

\* ------------------------------------------------------ script constants
numpy_get_include == "numpy/core/include"

include_dirs_ssht == <<numpy_get_include, "ssht/include/c">>

include_dirs_env == <<numpy_get_include, <<env["code"], "ssht/include/c">> >>

include_dirs == <<numpy_get_include>>

extra_link_args == <<>>

libraries_ssht == <<"ssht", "fftw3">>

libraries == <<>>

Extension(name, source) ==
    [name |-> name,
     package_dir |-> <<"src">>,
     sources |-> <<source>>,
     include_dirs |-> include_dirs,
     libraries |-> libraries,
     extra_link_args |-> extra_link_args,
     extra_compile_args |-> <<>>]

ext_modules ==
    <<Extension("harmonic/harmonic",
                [base |-> "harmonic/harmonic", ext |-> ".pyx"]),
      Extension("harmonic/model_base_class",
                [base |-> "harmonic/model_base_class", ext |-> ".pyx"])>>

\* cythonize keeps each descriptor and replaces a .pyx source by the
\* generated .c file
cythonize(exts) ==
    [i \in 1..Len(exts) |->
        [exts[i] EXCEPT !.sources =
            [j \in 1..Len(exts[i].sources) |->
                IF exts[i].sources[j].ext = ".pyx"
                THEN [base |-> exts[i].sources[j].base, ext |-> ".c"]
                ELSE exts[i].sources[j]]]]

\* ------------------------------------------------------------ walk state
PathItem(p) == [kind |-> "path", top |-> p, dirs |-> <<>>]
TripleItem(p, d) == [kind |-> "triple", top |-> p, dirs |-> d]

\* the argument the script hands to shutil.rmtree for entry name of root r
RmtreeTarget(r, name) == <<name>>

\* where control goes when shutil.rmtree raises: nothing catches it
AfterFailedRmtreeIgnored == "walk"

AfterFailedRmtree == "error"

\* the generator is exhausted: the for statement of line 12 is over
WalkExhaustedEarly == TRUE

WalkExhausted == stack = <<>>

Init ==
    /\ fs \in InitialTrees
    /\ fs0 = fs
    /\ env \in Envs
    /\ pc = "walk"
    /\ stack = <<PathItem(HarmonicTop)>>
    /\ root = <<>>
    /\ dirs = <<>>
    /\ idx = 1
    /\ deleted = {}
    /\ failed = FALSE
    /\ setupCalls = 0
    /\ passed = <<>>
    /\ run = 1
    /\ prev = [env |-> env, pc |-> "none", deleted |-> {}, passed |-> <<>>]

\* os.walk scans the directory on top of the stack; a scandir error is
\* swallowed (onerror is None); bottom-up: the triple is yielded after the
\* sub-directories have been walked
Scan ==
    /\ pc = "walk"
    /\ stack /= <<>>
    /\ Head(stack).kind = "path"
    /\ LET top == Head(stack).top IN
         IF ~IsDir(fs, top)
         THEN stack' = Tail(stack)
         ELSE \E d \in Orderings(SubDirNames(fs, top)) :
                stack' = [i \in 1..Len(d) |-> PathItem(Append(top, d[i]))]
                            \o <<TripleItem(top, d)>> \o Tail(stack)
    /\ UNCHANGED <<fs, fs0, env, pc, root, dirs, idx,
                   deleted, failed, setupCalls, passed, run, prev>>

\* os.walk yields (root, dirs, files): the body of the outer for starts
Yield ==
    /\ pc = "walk"
    /\ stack /= <<>>
    /\ Head(stack).kind = "triple"
    /\ root' = Head(stack).top
    /\ dirs' = Head(stack).dirs
    /\ idx' = 1
    /\ stack' = Tail(stack)
    /\ pc' = "loop"
    /\ UNCHANGED <<fs, fs0, env, deleted, failed, setupCalls, passed, run, prev>>

\* inner for, name != "build"
SkipName ==
    /\ pc = "loop"
    /\ idx <= Len(dirs)
    /\ dirs[idx] /= "build"
    /\ idx' = idx + 1
    /\ UNCHANGED <<fs, fs0, env, pc, stack, root, dirs,
                   deleted, failed, setupCalls, passed, run, prev>>

\* inner for, name == "build": shutil.rmtree(name)
Rmtree ==
    /\ pc = "loop"
    /\ idx <= Len(dirs)
    /\ dirs[idx] = "build"
    /\ LET target == RmtreeTarget(root, dirs[idx]) IN
         IF IsDir(fs, target)
         THEN /\ fs' = RemoveTree(fs, target)
              /\ deleted' = deleted \cup {q \in DOMAIN fs : IsPrefix(target, q)}
              /\ idx' = idx + 1
              /\ UNCHANGED <<pc, failed>>
         ELSE /\ failed' = TRUE
              /\ pc' = AfterFailedRmtree
              /\ UNCHANGED <<fs, deleted, idx>>
    /\ UNCHANGED <<fs0, env, stack, root, dirs, setupCalls, passed, run, prev>>

\* inner for is over: back to the generator
EndInner ==
    /\ pc = "loop"
    /\ idx > Len(dirs)
    /\ pc' = "walk"
    /\ UNCHANGED <<fs, fs0, env, stack, root, dirs, idx,
                   deleted, failed, setupCalls, passed, run, prev>>

\* setup(..., ext_modules=cythonize([...]))
Setup ==
    /\ pc = "walk"
    /\ WalkExhausted
    /\ setupCalls' = setupCalls + 1
    /\ passed' = cythonize(ext_modules)
    /\ pc' = "done"
    /\ UNCHANGED <<fs, fs0, env, stack, root, dirs, idx,
                   deleted, failed, run, prev>>

Next == Scan \/ Yield \/ SkipName \/ Rmtree \/ EndInner \/ Setup

Spec == Init /\ [][Next]_vars

FairSpec == Spec /\ WF_vars(Next)

\* a second invocation of the script from the same filesystem under a
\* different environment; the first run's outcome is kept in prev
Restart ==
    /\ run = 1
    /\ pc \in {"done", "error"}
    /\ prev' = [env |-> env, pc |-> pc, deleted |-> deleted, passed |-> passed]
    /\ run' = 2
    /\ fs' = fs0
    /\ env' \in Envs \ {env}
    /\ pc' = "walk"
    /\ stack' = <<PathItem(HarmonicTop)>>
    /\ root' = <<>>
    /\ dirs' = <<>>
    /\ idx' = 1
    /\ deleted' = {}
    /\ failed' = FALSE
    /\ setupCalls' = 0
    /\ passed' = <<>>
    /\ UNCHANGED fs0

NextTwoRuns == Next \/ Restart

SpecTwoRuns == Init /\ [][NextTwoRuns]_vars

\* ------------------------------------------------------------ properties

\* C1: once the script has run to its end, no directory named build is
\* left at any depth under ./harmonic/
C1_NoBuildDirRemains ==
    pc = "done" =>
        ~\E p \in DOMAIN fs :
            /\ Len(p) > 1
            /\ p[1] = "harmonic"
            /\ p[Len(p)] = "build"
            /\ fs[p] = "dir"

\* C2: setup is invoked only when the cleanup walk is over, and once setup
\* has been invoked nothing is deleted any more
C2_CleanupBeforeBuild ==
    [][/\ setupCalls' /= setupCalls => (stack = <<>> /\ pc = "walk")
       /\ setupCalls > 0 => (fs' = fs /\ deleted' = deleted)]_vars

C2_Witness == setupCalls = 1 /\ deleted /= {} /\ pc = "done"

\* C3: every run invokes setup exactly once, with exactly the two
\* descriptors harmonic/harmonic and harmonic/model_base_class, each built
\* from the source of the same name
C3_SetupOnceWithTwoExtensions ==
    pc \in {"done", "error"} =>
        /\ setupCalls = 1
        /\ Len(passed) = 2
        /\ passed[1].name = "harmonic/harmonic"
        /\ passed[1].sources[1].base = "harmonic/harmonic"
        /\ passed[2].name = "harmonic/model_base_class"
        /\ passed[2].sources[1].base = "harmonic/model_base_class"

\* C4: with no environment variable set, both descriptors handed to setup
\* have the numpy include path as their only include directory and no
\* extra link or compile arguments
C4_OnlyNumpyInclude ==
    (setupCalls > 0 /\ \A v \in EnvVars : env[v] = "unset") =>
        /\ Len(passed) = 2
        /\ \A i \in 1..Len(passed) :
            /\ passed[i].include_dirs = <<numpy_get_include>>
            /\ passed[i].extra_link_args = <<>>
            /\ passed[i].extra_compile_args = <<>>

C4_Witness ==
    /\ setupCalls = 1
    /\ \A v \in EnvVars : env[v] = "unset"
    /\ Len(passed) = 2

\* C5: no descriptor handed to setup names a library to link against
C5_NoLibraries ==
    /\ setupCalls > 0 => Len(passed) = 2
    /\ \A i \in 1..Len(passed) : passed[i].libraries = <<>>

C5_Witness ==
    /\ setupCalls = 1
    /\ Len(passed) = 2
    /\ \E v \in EnvVars : env[v] /= "unset"

\* C6: a second run from the same filesystem under a different environment
\* ends the same way, deletes the same entries and hands the same
\* descriptors to setup as the first run
C6_EnvIgnored ==
    (run = 2 /\ pc \in {"done", "error"}) =>
        /\ pc = prev.pc
        /\ deleted = prev.deleted
        /\ passed = prev.passed

C6_Witness ==
    /\ run = 2
    /\ pc = "done"
    /\ deleted /= {}
    /\ env /= prev.env
    /\ prev.pc = "done"

\* C7: from every initial tree the cleanup never fails and setup is
\* eventually invoked
C7_RunsToCompletion == [](~failed) /\ <>(setupCalls = 1)

\* C8: every entry of the initial tree that is neither a directory named
\* build under ./harmonic/ nor inside one is still there, unchanged
C8_OnlyHarmonicBuildDeleted ==
    \A p \in DOMAIN fs0 :
        (~\E k \in 2..Len(p) :
            /\ p[1] = "harmonic"
            /\ p[k] = "build"
            /\ fs0[SubSeq(p, 1, k)] = "dir")
        => (p \in DOMAIN fs /\ fs[p] = fs0[p])

\* C9: after a failed deletion the script is halted: setup has not been and
\* is never invoked, and no further step of the script is taken
C9_NoRecovery ==
    /\ [](failed => (setupCalls = 0 /\ pc = "error"))
    /\ [][~failed]_vars

C9_Witness == failed /\ pc = "error" /\ stack /= <<>> /\ setupCalls = 0

====
